---- MODULE Spec2Model ----
(***************************************************************************)
(* Ingestion pipeline of the review tracker: TrustpilotScraper             *)
(* (scraper.py) on top of Database (db/database.py, one psycopg2           *)
(* connection, no autocommit) and the multi-brand drivers (pipeline.py,    *)
(* weekly_job.py, main.py).                                                *)
(*                                                                         *)
(* A review served by the source is [id, body].  body is "ok" for a        *)
(* well-formed review, "malformed" for a review whose "consumer", "labels" *)
(* or "dates" entry is null, so that building the INSERT parameters raises *)
(* AttributeError before the statement is sent, and "overflow" for a       *)
(* review with a value the reviews table rejects (e.g. a language longer   *)
(* than VARCHAR(10)), so that the INSERT raises in the database and the    *)
(* open transaction becomes aborted.                                       *)
(*                                                                         *)
(* The weekly analytics (generate_weekly_report.py) and the week list of   *)
(* the pipeline (calculate_weeks_from_latest) are functions of the stored  *)
(* rows: SpecWeek, SpecStats, SpecLatency, SpecMatch, SpecThemes and       *)
(* SpecCalc draw their inputs in the initial state and apply the function  *)
(* in one step, with the ingestion side at rest.                           *)
(***************************************************************************)
EXTENDS Integers, Sequences, FiniteSets, TLC

\* ------------------------------------------------------------- bounds
MaxId == 2
MaxPage == 4
MaxPageLen == 2
MaxBatch == 2
MaxWeeks == 2

Brands == <<"a.io", "b.io">>
Ids == 1..MaxId
Bodies == {"ok", "malformed", "overflow"}
Review == [id : Ids, body : Bodies]
Drivers == {"pipeline", "weekly", "backfill", "script"}
MultiBrand == {"pipeline", "weekly", "backfill"}

SeqUpTo(S, n) == UNION {[1..k -> S] : k \in 0..n}

VARIABLES
  db,                       \* Database: the tables and the connection's open transaction
  pc, driver, bi, done,     \* the driver: position, kind, brand index, per-brand outcomes
  use_date_filter, batch_size, page, batch_buffer, consecutive_empty_pages,
  new_saves_this_page, all_reviews, total_inserted,   \* locals of scrape_and_save
  io,                       \* history: requests and pauses of the current sync, in order
  news,                     \* history: new_saves_this_page of every processed page
  stop,                     \* history: why the page loop ended
  result,                   \* history: how the last scrape_and_save call ended
  modeBy, brandExisted, brandHadReviews,   \* history: who chose the mode, on what storage
  startRows, fetchedIds, buffered,         \* history: rows seen at sync start, ids checked,
                                           \* records appended to the buffer
  rep,                      \* the driver's report stage for the current brand: the week
                            \* loop of process_brand_reports / weekly_mode / backfill_mode
  calc                      \* one call of the analytics functions: its inputs and result

drvVars == <<pc, driver, bi, done>>
syncVars == <<use_date_filter, batch_size, page, batch_buffer, consecutive_empty_pages,
              new_saves_this_page, all_reviews, total_inserted>>
histVars == <<io, news, stop, result, modeBy, brandExisted, brandHadReviews,
              startRows, fetchedIds, buffered>>
mainVars == <<db, drvVars, syncVars, histVars, rep>>
vars == <<mainVars, calc>>

\* ------------------------------------------------------------- storage
\* A row of the reviews table.  n tells how many rows with the same review_id
\* existed when it was inserted (0 under the UNIQUE constraint); failed marks a
\* row inserted by a _save_review_batch call that then raised.
Row(company_id, review, n) ==
  [company |-> company_id, review_id |-> review.id, body |-> review.body,
   n |-> n, failed |-> FALSE]

\* What a statement on the connection sees: committed rows and the rows of its
\* own open transaction.
VisibleRows(d) == d.reviews \cup {p.row : p \in d.pending}
VisibleCompanies(d) == d.companies \cup d.pendingCo

\* Lookup by the review_id column.
ByReviewIdNone(rows, review_id) == {}
ByReviewId(rows, review_id) == {r \in rows : r.review_id = review_id}

\* Database.connect on a new Database object: a fresh connection, nothing pending.
Connect(d) ==
  [d EXCEPT !.pending = {}, !.pendingCo = {}, !.txn = "ok", !.txFlushes = 0]

\* conn.commit(): the open transaction becomes durable.  mixed tells whether this
\* commit carried review inserts of more than one flush or brand (p.fl numbers the
\* _save_review_batch calls that inserted into the transaction).
Commit(d) ==
  [d EXCEPT !.reviews = d.reviews \cup {p.row : p \in d.pending},
            !.companies = d.companies \cup d.pendingCo,
            !.pending = {}, !.pendingCo = {}, !.txFlushes = 0,
            !.mixed = Cardinality({<<p.row.company, p.fl>> : p \in d.pending}) > 1]

\* A statement fails inside the database: the transaction is aborted, what it
\* held is lost, and every later statement raises until a rollback.
Abort(d) ==
  [d EXCEPT !.pending = {}, !.pendingCo = {}, !.txn = "aborted", !.txFlushes = 0]

\* Database.query raises at cur.execute when the transaction is aborted.
QueryRaises(d) == d.txn = "aborted"

\* Database.query with a statement that returns no rows (UPDATE): commits.
QueryUpdate(d) == Commit(d)

\* companies.updated_at, the brand's last-synced timestamp, is kept relative to the
\* scrape_and_save call in progress: updated_at holds the companies whose
\* updated_at is a NOW() taken since that call began.  When a call begins every
\* stored timestamp lies in the past.
CallBegins(d) == [d EXCEPT !.updated_at = {}]

\* _save_company_metadata with a businessUnit: "UPDATE companies SET business_id =
\* %s, ..., updated_at = NOW() WHERE id = %s" through Database.query, which commits.
SaveCompanyMetadata(d, name) ==
  QueryUpdate([d EXCEPT !.updated_at = d.updated_at \cup {name}])

\* "UPDATE companies SET updated_at = NOW() WHERE id = %s" at the end of
\* scrape_and_save, through Database.query, which commits.
UpdateTimestampNone(d, name) == QueryUpdate(d)
UpdateTimestamp(d, name) ==
  QueryUpdate([d EXCEPT !.updated_at = d.updated_at \cup {name}])

\* Database.query("INSERT INTO companies ... RETURNING id"): the statement has a
\* description, so query returns before conn.commit().
InsertCompany(d, name) == [d EXCEPT !.pendingCo = d.pendingCo \cup {name}]

\* _should_save_review: SELECT 1 FROM reviews WHERE review_id = %s
ShouldSaveReview(d, company_id, review) ==
  ByReviewId(VisibleRows(d), review.id) = {}

\* The rows that already carry this review_id, counted for the new row's n.
Copies(rows, review_id) == Cardinality({r \in rows : r.review_id = review_id})

\* One INSERT ... ON CONFLICT (review_id) DO NOTHING of _save_review_batch.
InsertReviewNoConflict(d, company_id, review, fl) ==
  [d EXCEPT !.pending = d.pending \cup
     {[row |-> Row(company_id, review, Copies(VisibleRows(d), review.id)), fl |-> fl]}]
InsertReview(d, company_id, review, fl) ==
  IF ByReviewId(VisibleRows(d), review.id) # {}
    THEN d
    ELSE [d EXCEPT !.pending = d.pending \cup
            {[row |-> Row(company_id, review, Copies(VisibleRows(d), review.id)),
              fl |-> fl]}]

\* The for loop of _save_review_batch from element i on.
RECURSIVE ExecInserts(_, _, _, _, _)
ExecInserts(d, company_id, batch, i, fl) ==
  IF i > Len(batch) THEN [db |-> d, status |-> "ok"]
  ELSE IF batch[i].body = "malformed" THEN [db |-> d, status |-> "py"]
  ELSE IF batch[i].body = "overflow" THEN [db |-> d, status |-> "sql"]
  ELSE ExecInserts(InsertReview(d, company_id, batch[i], fl), company_id, batch, i + 1, fl)

MarkFailed(d, fl) ==
  [d EXCEPT !.pending = {IF p.fl = fl THEN [p EXCEPT !.row.failed = TRUE] ELSE p
                          : p \in d.pending},
            !.txFlushes = IF \E p \in d.pending : p.fl = fl THEN fl ELSE d.txFlushes]

\* _save_review_batch: [db, raised].
SaveReviewBatch(d, company_id, batch) ==
  IF batch = <<>> THEN [db |-> d, raised |-> FALSE]
  ELSE IF QueryRaises(d) THEN [db |-> d, raised |-> TRUE]
  ELSE LET fl == d.txFlushes + 1
           r == ExecInserts(d, company_id, batch, 1, fl)
       IN IF r.status = "ok" THEN [db |-> Commit(r.db), raised |-> FALSE]
          ELSE IF r.status = "py" THEN [db |-> MarkFailed(r.db, fl), raised |-> TRUE]
          ELSE [db |-> Abort(r.db), raised |-> TRUE]


\* db.close(): the connection goes, and with it what was not committed.
Close(d) ==
  [d EXCEPT !.pending = {}, !.pendingCo = {}, !.txn = "ok", !.txFlushes = 0]

\* ------------------------------------------------------------- decisions
\* _brand_exists: SELECT id FROM companies WHERE name = %s LIMIT 1
BrandExistsByReviews(d, name) == \E r \in VisibleRows(d) : r.company = name
BrandExists(d, name) == name \in VisibleCompanies(d)

\* get_brand_metadata(domain) is not None: companies LEFT JOIN reviews, GROUP BY c.id
MetadataExists(d, name) == name \in VisibleCompanies(d)

\* backfill_mode: SELECT COUNT(*) FROM reviews r JOIN companies c ... WHERE c.name = %s
ReviewCount(d, name) ==
  IF name \in VisibleCompanies(d)
    THEN Cardinality({r \in VisibleRows(d) : r.company = name})
    ELSE 0

\* "if consecutive_empty_pages >= 2"
EarlyStopAfterThree(n) == n >= 3
EarlyStop(n) == n >= 2

\* "if new_saves_this_page == 0: consecutive_empty_pages += 1 ... else:
\* consecutive_empty_pages = 0"
CountEmptyNoReset(n, new) == IF new = 0 THEN n + 1 ELSE n
CountEmpty(n, new) == IF new = 0 THEN n + 1 ELSE 0

\* "page += 1" at the end of the loop body
NextPageSkip(p) == p + 2
NextPage(p) == p + 1

\* "if batch_buffer:" before the final _save_review_batch
FlushRemainingIfFull(buffer, size) == Len(buffer) >= size
FlushRemaining(buffer, size) == buffer # <<>>

\* "break" on a 404, on a page without __NEXT_DATA__ and on an empty review list:
\* where control goes
OnEndOfPagesContinue == "fetch"
OnEndOfPages == "final"

\* "except Exception as e: ... break" of the page loop: where control goes
OnPageExceptionContinue == "fetch"
OnPageException == "final"

\* "except Exception as e: ... continue" of the drivers' brand loops: the next index
AfterBrandErrorAbort(i) == Len(Brands) + 1
AfterBrandError(i) == i + 1

\* "def generate_weekly_report(company_name, iso_week)": the positional parameters
ReportArity == 2
\* "generate_weekly_report(self.db, domain, iso_week)", "generate_weekly_report(db,
\* brand['domain'], iso_week)": the arguments the drivers pass
DriverArgs == 3
\* "generate_weekly_report(company_name, iso_week)" of the module's own main()
DirectArgs == 2

\* One call of generate_weekly_report with nargs positional arguments, for a brand
\* that is stored or not and a week holding total reviews: a call that does not fit
\* the signature raises TypeError before the body runs; the body returns None when
\* the company is not found or the week's COUNT(*) is 0.
CallReport(nargs, stored, total) ==
  IF nargs # ReportArity THEN "TypeError"
  ELSE IF ~stored THEN "null"
  ELSE IF total = 0 THEN "null"
  ELSE "report"

\* "except Exception" around the week's generate call: none in process_brand_reports,
\* weekly_mode or backfill_mode, so the exception leaves the week loop.
OnWeekException == "raised"

\* ------------------------------------------------------------- initial state
\* the report stage before it starts: no week list, nothing counted, no
\* generate_weekly_report call made (gen), no aggregation query run on any
\* connection (on), no connection opened by the stage itself (opened)
RepInit ==
  [stage |-> "none", weeks |-> 0, idx |-> 1, uploaded |-> 0, skipped |-> 0, failed |-> 0,
   gen |-> "none", on |-> "none", opened |-> 0]

EmptyDb ==
  [reviews |-> {}, companies |-> {}, pending |-> {}, pendingCo |-> {},
   txn |-> "ok", txFlushes |-> 0, mixed |-> FALSE, updated_at |-> {}]

SyncInit ==
  /\ page = 1
  /\ batch_buffer = <<>>
  /\ consecutive_empty_pages = 0
  /\ new_saves_this_page = 0
  /\ all_reviews = <<>>
  /\ total_inserted = 0

HistInit ==
  /\ io = <<>>
  /\ news = <<>>
  /\ stop = "none"
  /\ result = "none"
  /\ modeBy = "none"
  /\ brandExisted = FALSE
  /\ brandHadReviews = FALSE
  /\ startRows = {}
  /\ fetchedIds = {}
  /\ buffered = 0

MainInit ==
  /\ db = EmptyDb
  /\ pc = "idle"
  /\ driver = "none"
  /\ bi = 1
  /\ done = <<>>
  /\ use_date_filter = FALSE
  /\ batch_size = 1
  /\ SyncInit
  /\ HistInit
  /\ rep = RepInit

Init ==
  /\ MainInit
  /\ calc = [op |-> "none"]

\* the locals and the history of one scrape_and_save call, as before the call
ResetSync ==
  /\ use_date_filter' = FALSE
  /\ page' = 1
  /\ batch_buffer' = <<>>
  /\ consecutive_empty_pages' = 0
  /\ new_saves_this_page' = 0
  /\ all_reviews' = <<>>
  /\ total_inserted' = 0
  /\ io' = <<>>
  /\ news' = <<>>
  /\ stop' = "none"
  /\ result' = "none"
  /\ modeBy' = "none"
  /\ brandExisted' = FALSE
  /\ brandHadReviews' = FALSE
  /\ startRows' = {}
  /\ fetchedIds' = {}
  /\ buffered' = 0

callVars == <<use_date_filter, page, batch_buffer, consecutive_empty_pages,
              new_saves_this_page, all_reviews, total_inserted, io, news, stop,
              result, modeBy, brandExisted, brandHadReviews, startRows, fetchedIds,
              buffered>>

\* ------------------------------------------------------------- drivers
\* TrustpilotPipeline.__init__, weekly_mode, backfill_mode, main.py: connect once,
\* then loop over the brands (a script syncs one brand).
StartRun(d, size, first) ==
  /\ pc = "idle"
  /\ d = "script" \/ first = 1
  /\ db' = Connect(db)
  /\ pc' = "brand"
  /\ driver' = d
  /\ bi' = first
  /\ done' = <<>>
  /\ batch_size' = size
  /\ rep' = RepInit
  /\ UNCHANGED <<calc, callVars>>

\* the brand loop is exhausted: db.close()
EndRun ==
  /\ pc = "brand"
  /\ bi > Len(Brands)
  /\ db' = Close(db)
  /\ pc' = "idle"
  /\ UNCHANGED <<rep, calc, driver, bi, done, batch_size, callVars>>

\* An exception has left scrape_and_save or the report step: run_full_pipeline,
\* weekly_mode and backfill_mode catch it and continue with the next brand; a
\* script (main.py, tests/test_batching.py) dies with it.
Handle ==
  /\ pc = "raised"
  /\ IF driver \in MultiBrand
       THEN /\ db' = db
            /\ pc' = "brand"
            /\ bi' = AfterBrandError(bi)
            /\ done' = Append(done, <<Brands[bi], "error">>)
       ELSE /\ db' = Close(db)
            /\ pc' = "idle"
            /\ UNCHANGED <<bi, done>>
  /\ ResetSync
  /\ rep' = RepInit
  /\ UNCHANGED <<calc, driver, batch_size>>

\* The driver's choice of mode and scrape_and_save up to the page loop.
\* arg is the use_date_filter argument a script passes ("auto" = None).
BeginSync(arg) ==
  /\ pc = "brand"
  /\ bi <= Len(Brands)
  /\ driver = "script" \/ arg = "auto"
  /\ UNCHANGED <<rep, calc, driver, bi, done, batch_size, page, batch_buffer, consecutive_empty_pages,
                 new_saves_this_page, all_reviews, total_inserted, io, news, stop,
                 fetchedIds, buffered>>
  /\ LET name == Brands[bi] IN
     IF QueryRaises(db)
       THEN /\ db' = CallBegins(db)
            /\ pc' = "raised"
            /\ result' = "raised"
            /\ UNCHANGED <<use_date_filter, modeBy, brandExisted, brandHadReviews, startRows>>
       ELSE /\ use_date_filter' =
                 CASE driver = "pipeline" -> MetadataExists(db, name)
                   [] driver = "weekly" -> TRUE
                   [] driver = "backfill" -> ReviewCount(db, name) # 0
                   [] OTHER -> IF arg = "auto" THEN BrandExists(db, name) ELSE arg = "incr"
            /\ modeBy' =
                 CASE driver = "pipeline" -> "pipeline"
                   [] driver = "weekly" -> "override"
                   [] driver = "backfill" -> "backfill"
                   [] OTHER -> IF arg = "auto" THEN "scraper" ELSE "override"
            /\ brandExisted' = (name \in VisibleCompanies(db))
            /\ brandHadReviews' = (\E r \in VisibleRows(db) : r.company = name)
            /\ startRows' = VisibleRows(db)
            /\ db' = IF name \in VisibleCompanies(db) THEN CallBegins(db)
                     ELSE InsertCompany(CallBegins(db), name)
            /\ pc' = "fetch"
            /\ result' = "running"

\* ------------------------------------------------------------- the page loop
Company == Brands[bi]
Metas == {"none", "ok", "bad"}

\* session.get answers 404: "Reached end", break
FetchNotFound ==
  /\ pc = "fetch"
  /\ io' = Append(io, <<"get", page>>)
  /\ stop' = "notfound"
  /\ pc' = OnEndOfPages
  /\ UNCHANGED <<rep, calc, db, driver, bi, done, syncVars, news, result, modeBy, brandExisted,
                 brandHadReviews, startRows, fetchedIds, buffered>>

\* the page has no __NEXT_DATA__ script: "No data found", break
FetchNoData ==
  /\ pc = "fetch"
  /\ io' = Append(io, <<"get", page>>)
  /\ stop' = "nodata"
  /\ pc' = OnEndOfPages
  /\ UNCHANGED <<rep, calc, db, driver, bi, done, syncVars, news, result, modeBy, brandExisted,
                 brandHadReviews, startRows, fetchedIds, buffered>>

\* session.get, raise_for_status or json.loads raises: except, break
FetchError ==
  /\ pc = "fetch"
  /\ io' = Append(io, <<"get", page>>)
  /\ stop' = "error"
  /\ pc' = OnPageException
  /\ UNCHANGED <<rep, calc, db, driver, bi, done, syncVars, news, result, modeBy, brandExisted,
                 brandHadReviews, startRows, fetchedIds, buffered>>

\* The page parses: metadata on page 1 (meta = what businessUnit/aiSummary hold:
\* nothing, a businessUnit the tables take, or a value they reject), the empty-page test
\* and the novelty loop (lines 306-345).
FetchPage(reviews, meta) ==
  /\ pc = "fetch"
  /\ page <= MaxPage
  /\ page = 1 \/ meta = "none"
  /\ io' = Append(io, <<"get", page>>)
  /\ LET saves == page = 1 /\ meta # "none"
         metaRaises == saves /\ (QueryRaises(db) \/ meta = "bad")
         d1 == IF ~saves \/ QueryRaises(db) THEN db
               ELSE IF meta = "bad" THEN Abort(db)
               ELSE SaveCompanyMetadata(db, Company)
         Novel(r) == ShouldSaveReview(d1, Company, r)
         fresh == SelectSeq(reviews, Novel)
     IN /\ db' = d1
        /\ IF metaRaises \/ (reviews # <<>> /\ QueryRaises(d1))
             THEN /\ stop' = "dberror"
                  /\ pc' = OnPageException
                  /\ UNCHANGED <<batch_buffer, new_saves_this_page, news, fetchedIds, buffered>>
           ELSE IF reviews = <<>>
             THEN /\ stop' = "empty"
                  /\ pc' = OnEndOfPages
                  /\ UNCHANGED <<batch_buffer, new_saves_this_page, news, fetchedIds, buffered>>
           ELSE /\ batch_buffer' = batch_buffer \o fresh
                /\ new_saves_this_page' = Len(fresh)
                /\ news' = Append(news, Len(fresh))
                /\ fetchedIds' = fetchedIds \cup {reviews[i].id : i \in 1..Len(reviews)}
                /\ buffered' = buffered + Len(fresh)
                /\ stop' = stop
                /\ pc' = "commit"
  /\ UNCHANGED <<rep, calc, driver, bi, done, use_date_filter, batch_size, page,
                 consecutive_empty_pages, all_reviews, total_inserted,
                 result, modeBy, brandExisted, brandHadReviews, startRows>>

\* Lines 347-376: commit the batch if full, extend all_reviews, early stop, next page.
CommitBatch ==
  /\ pc = "commit"
  /\ LET full == Len(batch_buffer) >= batch_size
         r == IF full THEN SaveReviewBatch(db, Company, batch_buffer)
              ELSE [db |-> db, raised |-> FALSE]
         empties == IF use_date_filter
                      THEN CountEmpty(consecutive_empty_pages, new_saves_this_page)
                      ELSE consecutive_empty_pages
         early == use_date_filter /\ new_saves_this_page = 0 /\ EarlyStop(empties)
     IN /\ db' = r.db
        /\ IF r.raised
             THEN /\ stop' = "dberror"
                  /\ pc' = OnPageException
                  /\ UNCHANGED <<batch_buffer, total_inserted, all_reviews,
                                 consecutive_empty_pages, page>>
             ELSE /\ batch_buffer' = IF full THEN <<>> ELSE batch_buffer
                  /\ total_inserted' = IF full THEN total_inserted + Len(batch_buffer)
                                       ELSE total_inserted
                  /\ all_reviews' = Append(all_reviews, page)
                  /\ consecutive_empty_pages' = empties
                  /\ IF early
                       THEN stop' = "early" /\ pc' = "final" /\ page' = page
                       ELSE stop' = stop /\ pc' = "fetch" /\ page' = NextPage(page)
  /\ UNCHANGED <<rep, calc, driver, bi, done, use_date_filter, batch_size, new_saves_this_page,
                 io, news, result, modeBy, brandExisted, brandHadReviews,
                 startRows, fetchedIds, buffered>>

\* Lines 378-381: save the remaining batch; its exception leaves scrape_and_save.
FinalFlush ==
  /\ pc = "final"
  /\ LET flush == FlushRemaining(batch_buffer, batch_size)
         r == IF flush THEN SaveReviewBatch(db, Company, batch_buffer)
              ELSE [db |-> db, raised |-> FALSE]
     IN /\ db' = r.db
        /\ IF r.raised
             THEN /\ pc' = "raised"
                  /\ result' = "raised"
                  /\ UNCHANGED total_inserted
             ELSE /\ pc' = "stamp"
                  /\ total_inserted' = IF flush THEN total_inserted + Len(batch_buffer)
                                       ELSE total_inserted
                  /\ UNCHANGED result
  /\ UNCHANGED <<rep, calc, driver, bi, done, use_date_filter, batch_size, page, batch_buffer,
                 consecutive_empty_pages, new_saves_this_page, all_reviews,
                 io, news, stop, modeBy, brandExisted, brandHadReviews,
                 startRows, fetchedIds, buffered>>

\* Lines 383-392: UPDATE companies SET updated_at = NOW(); return all_reviews.
Stamp ==
  /\ pc = "stamp"
  /\ IF QueryRaises(db)
       THEN /\ db' = db
            /\ pc' = "raised"
            /\ result' = "raised"
       ELSE /\ db' = UpdateTimestamp(db, Company)
            /\ pc' = "report"
            /\ result' = "returned"
  /\ UNCHANGED <<rep, calc, driver, bi, done, syncVars, io, news, stop, modeBy, brandExisted,
                 brandHadReviews, startRows, fetchedIds, buffered>>

\* The report stage of a multi-brand driver begins: the scrape_and_save call is
\* over (its locals are gone) and the driver builds the list of n weeks to report.
\* process_brand_reports returns at once when get_brand_metadata finds no
\* latest_date; backfill_mode lists the weeks that have reviews; weekly_mode
\* reports the one last completed week.  weekly_mode and backfill_mode first
\* prepare the sink (find_or_create_spreadsheet, setup_raw_data_sheet,
\* get_existing_data), whose exception goes to the brand's handler.
BeginReports(n, sink) ==
  /\ pc = "report"
  /\ driver \in MultiBrand
  /\ driver = "weekly" => n = 1
  /\ driver \in {"pipeline", "backfill"} =>
       (n > 0 => \E r \in VisibleRows(db) : r.company = Company)
  /\ driver = "pipeline" => sink = "up"
  /\ db' = db
  /\ ResetSync
  /\ IF sink = "down"
       THEN /\ pc' = "raised"
            /\ rep' = RepInit
       ELSE /\ pc' = "week"
            /\ rep' = [RepInit EXCEPT !.stage = "weeks", !.weeks = n]
  /\ UNCHANGED <<calc, driver, bi, done, batch_size>>

\* "if key in existing: ... skipping" of weekly_mode and backfill_mode
WeekSkip ==
  /\ pc = "week"
  /\ driver \in {"weekly", "backfill"}
  /\ rep.idx <= rep.weeks
  /\ rep' = [rep EXCEPT !.idx = rep.idx + 1, !.skipped = rep.skipped + 1]
  /\ UNCHANGED <<calc, db, pc, driver, bi, done, batch_size, callVars>>

\* One week of the loop: generate_weekly_report is called with the driver's
\* arguments (total = the week's review count), then the report is uploaded
\* (up = the upload succeeds; its exception is caught and counted as failed).
\* The body of generate_weekly_report works on a Database() of its own, which it
\* closes before returning.
WeekReport(total, up) ==
  /\ pc = "week"
  /\ rep.idx <= rep.weeks
  /\ LET got == CallReport(DriverArgs, Company \in VisibleCompanies(db), total)
     IN IF got = "TypeError"
          THEN /\ pc' = OnWeekException
               /\ rep' = [rep EXCEPT !.gen = got]
          ELSE /\ pc' = "week"
               /\ rep' = [rep EXCEPT !.gen = got, !.on = "own",
                                     !.opened = rep.opened + 1,
                                     !.idx = rep.idx + 1,
                                     !.uploaded = IF got = "report" /\ up
                                                    THEN rep.uploaded + 1 ELSE rep.uploaded,
                                     !.failed = IF got = "report" /\ up
                                                  THEN rep.failed ELSE rep.failed + 1]
  /\ UNCHANGED <<calc, db, driver, bi, done, batch_size, callVars>>

\* The week list is exhausted: the summary is printed and the brand is done.
WeeksDone ==
  /\ pc = "week"
  /\ rep.idx > rep.weeks
  /\ pc' = "brand"
  /\ bi' = bi + 1
  /\ done' = Append(done, <<Brands[bi], "ok">>)
  /\ rep' = RepInit
  /\ UNCHANGED <<calc, db, driver, batch_size, callVars>>

\* main.py, tests/test_batching.py: db.close() after the one sync
ScriptExit ==
  /\ pc = "report"
  /\ driver = "script"
  /\ db' = Close(db)
  /\ pc' = "idle"
  /\ ResetSync
  /\ UNCHANGED <<rep, calc, driver, bi, done, batch_size>>

Next ==
  \/ \E d \in Drivers, size \in 1..MaxBatch, first \in 1..Len(Brands) : StartRun(d, size, first)
  \/ EndRun
  \/ Handle
  \/ \E arg \in {"auto", "incr", "full"} : BeginSync(arg)
  \/ FetchNotFound
  \/ FetchNoData
  \/ FetchError
  \/ \E reviews \in SeqUpTo(Review, MaxPageLen), meta \in Metas : FetchPage(reviews, meta)
  \/ CommitBatch
  \/ FinalFlush
  \/ Stamp
  \/ \E n \in 0..MaxWeeks, sink \in {"up", "down"} : BeginReports(n, sink)
  \/ WeekSkip
  \/ \E total \in 0..1, up \in BOOLEAN : WeekReport(total, up)
  \/ WeeksDone
  \/ ScriptExit

Spec == Init /\ [][Next]_vars


\* ------------------------------------------------------------- ISO weeks
\* Calendar days are proleptic Gregorian ordinals (datetime.toordinal: day 1 is
\* 0001-01-01, a Monday); an instant is a number of seconds since 00:00 of the
\* first day of FirstYear - 1.
FirstYear == 2024
LastYear == 2027
Years == FirstYear..LastYear
Tokens == [year : Years, week : 1..53]

DaysBeforeYear(y) ==
  (y - 1) * 365 + ((y - 1) \div 4) - ((y - 1) \div 100) + ((y - 1) \div 400)
Instant(day, sec) == (day - (DaysBeforeYear(FirstYear - 1) + 1)) * 86400 + sec

\* datetime.weekday(): Monday is 0
Weekday(day) == (day + 6) % 7

\* "jan4 = datetime(year, 1, 4); week_start = jan4 - timedelta(days=jan4.weekday())
\*  + timedelta(weeks=week-1)": the day of week_start (its time of day is 00:00)
WeekStartDay(year, week) ==
  LET jan4 == DaysBeforeYear(year) + 4
  IN jan4 - Weekday(jan4) + 7 * (week - 1)
WeekStart(year, week) == Instant(WeekStartDay(year, week), 0)
\* "week_end = week_start + timedelta(days=7)"
WeekEnd(year, week) == WeekStart(year, week) + 7 * 86400
\* "prev_week_start = week_start - timedelta(days=7); prev_week_end = week_start"
PrevWeekStart(year, week) == WeekStart(year, week) - 7 * 86400

\* "review_date >= %s AND review_date < %s"
InWindowInclusive(t, from, to) == from <= t /\ t <= to
InWindow(t, from, to) == from <= t /\ t < to

\* The review dates tried around a week: offsets in seconds from its week_start.
Offsets == {-1, 0, 1, 7 * 86400 - 1, 7 * 86400}

WeekInit ==
  /\ MainInit
  /\ \E tok \in Tokens, off \in Offsets :
       calc = [op |-> "week", year |-> tok.year, week |-> tok.week, off |-> off,
               state |-> "asked"]

\* generate_weekly_report for the token over a table holding one review, dated
\* off seconds from the token's week_start: the window, and whether the week's
\* statistics (this) and the previous week's (prev) count the review.
WeekStats ==
  /\ calc.op = "week"
  /\ calc.state = "asked"
  /\ LET ws == WeekStart(calc.year, calc.week)
         we == WeekEnd(calc.year, calc.week)
         t == ws + calc.off
     IN calc' = [op |-> "week", year |-> calc.year, week |-> calc.week, off |-> calc.off,
                 state |-> "computed",
                 week_start_day |-> WeekStartDay(calc.year, calc.week),
                 week_start |-> ws, week_end |-> we, review_date |-> t,
                 this |-> IF InWindow(t, ws, we) THEN 1 ELSE 0,
                 prev |-> IF InWindow(t, PrevWeekStart(calc.year, calc.week), ws)
                            THEN 1 ELSE 0]
  /\ UNCHANGED mainVars

WeekNext == WeekStats
SpecWeek == WeekInit /\ [][WeekNext]_vars

\* ------------------------------------------------------------- weekly statistics
\* A nullable column value is <<>> (NULL) or <<v>>.
Null == <<>>
Val(v) == <<v>>

MaxPerRating == 2
MaxPrev == 6

\* The reviews table for the statistics: rows [company, rating, review_date] of
\* the stored brand Brands[1].  The table holds hist[r] reviews rated r and
\* nullRated reviews without a rating in the week ReviewWeek, nprev reviews in
\* the week before it and nnext reviews dated at its week_end.
ReviewWeek == [year |-> 2026, week |-> 4]
Copy(x, n) == [i \in 1..n |-> x]
RECURSIVE Rated(_, _, _)
Rated(hist, r, date) ==
  IF r > 5 THEN <<>>
  ELSE Copy([company |-> Brands[1], rating |-> Val(r), review_date |-> Val(date)], hist[r])
         \o Rated(hist, r + 1, date)
Table(hist, nullRated, nprev, nnext) ==
  LET ws == WeekStart(ReviewWeek.year, ReviewWeek.week)
      we == WeekEnd(ReviewWeek.year, ReviewWeek.week)
      pws == PrevWeekStart(ReviewWeek.year, ReviewWeek.week)
  IN Rated(hist, 1, ws)
       \o Copy([company |-> Brands[1], rating |-> Null, review_date |-> Val(we - 1)], nullRated)
       \o Copy([company |-> Brands[1], rating |-> Val(3), review_date |-> Val(pws)], nprev)
       \o Copy([company |-> Brands[1], rating |-> Val(5), review_date |-> Val(we)], nnext)

\* SQL comparisons on a nullable integer: NULL satisfies none of them.
Ge(x, n) == x # Null /\ x[1] >= n
Le(x, n) == x # Null /\ x[1] <= n
Eq(x, n) == x # Null /\ x[1] = n

\* "FROM reviews WHERE company_id = %s AND review_date >= %s AND review_date < %s"
WeekRows(tbl, company, from, to) ==
  {i \in DOMAIN tbl : /\ tbl[i].company = company
                      /\ tbl[i].review_date # Null
                      /\ InWindow(tbl[i].review_date[1], from, to)}

\* The statistics query: COUNT(*) and the SUM(CASE WHEN ... THEN 1 ELSE 0 END) columns.
WeekCounts(tbl, company, from, to) ==
  LET rows == WeekRows(tbl, company, from, to)
  IN [total_reviews |-> Cardinality(rows),
      positive_count |-> Cardinality({i \in rows : Ge(tbl[i].rating, 4)}),
      neutral_count |-> Cardinality({i \in rows : Eq(tbl[i].rating, 3)}),
      negative_count |-> Cardinality({i \in rows : Le(tbl[i].rating, 2)})]

\* round(x, 2) of the quotient n / d * 100, d > 0, in hundredths: the nearest
\* hundredth, a tie going to the even one.
RoundPct(n, d) ==
  LET q == (n * 10000) \div d
      r == n * 10000 - q * d
  IN IF 2 * r < d THEN q
     ELSE IF 2 * r > d THEN q + 1
     ELSE IF q % 2 = 0 THEN q ELSE q + 1

\* "wow_volume = stat['total_reviews'] - prev_stat['total_reviews']"
WowVolume(total, prev) == total - prev
\* "(wow_volume / prev * 100) if prev > 0 else None", then round(.., 2) if not None
WowVolumePctZero(total, prev) ==
  IF prev > 0 THEN Val(RoundPct(WowVolume(total, prev), prev)) ELSE Val(0)
WowVolumePct(total, prev) ==
  IF prev > 0 THEN Val(RoundPct(WowVolume(total, prev), prev)) ELSE Null

\* Who calls generate_weekly_report, and with how many arguments.
Callers == {"direct", "pipeline", "weekly", "backfill"}
CallerArgs(caller) == IF caller = "direct" THEN DirectArgs ELSE DriverArgs

\* generate_weekly_report(company_name, iso_week) over the table: what the call
\* gives (TypeError, null or report) and the report's figures.
GenerateWeeklyReport(nargs, companies, tbl, company_name, year, week) ==
  LET ws == WeekStart(year, week)
      stat == WeekCounts(tbl, company_name, ws, WeekEnd(year, week))
      prev_stat == WeekCounts(tbl, company_name, PrevWeekStart(year, week), ws)
      got == CallReport(nargs, company_name \in companies, stat.total_reviews)
  IN IF got # "report" THEN [outcome |-> got]
     ELSE [outcome |-> got,
           total_this_week |-> stat.total_reviews,
           total_last_week |-> prev_stat.total_reviews,
           wow_change |-> WowVolume(stat.total_reviews, prev_stat.total_reviews),
           wow_change_pct |-> WowVolumePct(stat.total_reviews, prev_stat.total_reviews),
           positive |-> stat.positive_count,
           neutral |-> stat.neutral_count,
           negative |-> stat.negative_count]

\* The week asked for: the week of the stored reviews, the week after it (whose
\* previous week is that one), or a week without reviews.
AskedWeeks == {ReviewWeek, [year |-> 2026, week |-> 5], [year |-> 2026, week |-> 1]}

StatsInit ==
  /\ MainInit
  /\ \E hist \in [1..5 -> 0..MaxPerRating], nullRated \in 0..1, nprev \in 0..MaxPrev,
        nnext \in 0..1, name \in {Brands[1], Brands[2]}, tok \in AskedWeeks :
       calc = [op |-> "stats", hist |-> hist, nullRated |-> nullRated, nprev |-> nprev,
               nnext |-> nnext, company_name |-> name, iso_week |-> tok,
               caller |-> "none", out |-> [outcome |-> "none"]]

\* One call of generate_weekly_report by the caller.
Generate(caller) ==
  /\ calc.op = "stats"
  /\ calc.caller = "none"
  /\ calc' = [calc EXCEPT
       !.caller = caller,
       !.out = GenerateWeeklyReport(CallerArgs(caller), {Brands[1]},
                 Table(calc.hist, calc.nullRated, calc.nprev, calc.nnext),
                 calc.company_name, calc.iso_week.year, calc.iso_week.week)]
  /\ UNCHANGED mainVars

StatsNext == \E caller \in Callers : Generate(caller)
SpecStats == StatsInit /\ [][StatsNext]_vars

\* ------------------------------------------------------------- the weeks to report
MaxWeeksBack == 60

\* date.isocalendar(): the ISO year and week of a calendar day of the given year.
\* Week 1 is the week with the year's first Thursday.
IsoWeek1Monday(year) ==
  LET firstday == DaysBeforeYear(year) + 1
      firstweekday == Weekday(firstday)
  IN IF firstweekday > 3 THEN firstday - firstweekday + 7 ELSE firstday - firstweekday
IsoCalendar(year, day) ==
  LET week == (day - IsoWeek1Monday(year)) \div 7
  IN IF week < 0
       THEN [year |-> year - 1, week |-> ((day - IsoWeek1Monday(year - 1)) \div 7) + 1]
     ELSE IF week >= 52 /\ day >= IsoWeek1Monday(year + 1)
       THEN [year |-> year + 1, week |-> 1]
     ELSE [year |-> year, week |-> week + 1]

\* "last_day = datetime(current_year, 12, 28); _, weeks_in_year, _ = last_day.isocalendar()"
WeeksInYear(year) == IsoCalendar(year, DaysBeforeYear(year + 1) - 3).week

\* calculate_weeks_from_latest(latest_date, weeks_back): latest_date is Null or
\* Val([year, day]), the calendar day as an ordinal; a week token
\* f"{current_year}-W{current_week:02d}" is kept as its two numbers.
CalculateWeeksFromLatest(latest_date, weeks_back) ==
  IF latest_date = Null THEN <<>>
  ELSE LET iso == IsoCalendar(latest_date[1].year, latest_date[1].day)
       IN [n \in 1..weeks_back |->
             LET current_week == iso.week - (n - 1)
             IN IF current_week <= 0
                  THEN [year |-> iso.year - 1,
                        week |-> WeeksInYear(iso.year - 1) + current_week]
                  ELSE [year |-> iso.year, week |-> current_week]]

\* The latest review dates tried: the days around the turn of each year and in
\* the middle of it.
LatestDates ==
  {[year |-> y, day |-> DaysBeforeYear(y) + d] :
     y \in Years, d \in (1..10) \cup (180..182) \cup (356..365)}

CalcInit ==
  /\ MainInit
  /\ \E latest \in {Null} \cup {Val(dt) : dt \in LatestDates}, weeks_back \in 1..MaxWeeksBack :
       calc = [op |-> "weeks", latest_date |-> latest, weeks_back |-> weeks_back,
               state |-> "asked", weeks |-> <<>>]

\* process_brand_reports asks for the weeks to report.
CalculateWeeks ==
  /\ calc.op = "weeks"
  /\ calc.state = "asked"
  /\ calc' = [calc EXCEPT !.state = "computed",
                          !.weeks = CalculateWeeksFromLatest(calc.latest_date, calc.weeks_back)]
  /\ UNCHANGED mainVars

CalcNext == CalculateWeeks
SpecCalc == CalcInit /\ [][CalcNext]_vars

\* ------------------------------------------------------------- response latency
MaxLatencyReviews == 3

\* The brand's reviews for the latency: [review_date, reply_date], both nullable,
\* in seconds from the week_start of the week asked for.
LatencyReview == [review_date : {Null, Val(0)}, reply_date : {Null, Val(0), Val(3600), Val(9000)}]

\* "WHERE ... review_date >= %s AND review_date < %s": a NULL review_date is in no week
LatencyRows(tbl) ==
  {i \in DOMAIN tbl : /\ tbl[i].review_date # Null
                      /\ InWindow(tbl[i].review_date[1], 0, 7 * 86400)}

RECURSIVE SumOver(_, _)
SumOver(f, S) ==
  IF S = {} THEN 0 ELSE LET x == CHOOSE y \in S : TRUE IN f[x] + SumOver(f, S \ {x})

\* "AVG(CASE WHEN reply_date IS NOT NULL AND review_date IS NOT NULL THEN
\* EXTRACT(EPOCH FROM (reply_date - review_date)) / 3600 ELSE NULL END)": NULL when
\* no row has a value, else the average, kept as [seconds, rows].
AvgResponseHours(tbl) ==
  LET rows == LatencyRows(tbl)
      both == {i \in rows : tbl[i].reply_date # Null /\ tbl[i].review_date # Null}
  IN IF both = {} THEN Null
     ELSE Val([seconds |-> SumOver([i \in both |-> tbl[i].reply_date[1] - tbl[i].review_date[1]],
                                   both),
               rows |-> Cardinality(both)])

\* "if stat['avg_response_hours']": None and a zero number are false
Truthy(avg) == avg # Null /\ avg[1].seconds # 0

\* round(float(x), 2) of x = n / d hours, in hundredths of an hour (d > 0)
RoundHours(n, d) ==
  LET q == (n * 100) \div d
      r == n * 100 - q * d
  IN IF 2 * r < d THEN q
     ELSE IF 2 * r > d THEN q + 1
     ELSE IF q % 2 = 0 THEN q ELSE q + 1

\* "avg_response_time_hours": round(float(stat['avg_response_hours']), 2) if
\* stat['avg_response_hours'] else None
AvgResponseTimeHours(avg) ==
  IF Truthy(avg) THEN Val(RoundHours(avg[1].seconds, avg[1].rows * 3600)) ELSE Null

LatencyInit ==
  /\ MainInit
  /\ \E tbl \in SeqUpTo(LatencyReview, MaxLatencyReviews) :
       calc = [op |-> "latency", tbl |-> tbl, state |-> "asked",
               outcome |-> "none", avg_response_time_hours |-> Null]

\* generate_weekly_report over the table: a null report when the week holds no
\* review, else a report with the response performance figures.
ReportLatency ==
  /\ calc.op = "latency"
  /\ calc.state = "asked"
  /\ calc' = [calc EXCEPT
       !.state = "computed",
       !.outcome = CallReport(DirectArgs, TRUE, Cardinality(LatencyRows(calc.tbl))),
       !.avg_response_time_hours = AvgResponseTimeHours(AvgResponseHours(calc.tbl))]
  /\ UNCHANGED mainVars

LatencyNext == ReportLatency
SpecLatency == LatencyInit /\ [][LatencyNext]_vars

\* ------------------------------------------------------------- theme extraction
\* A text and a search term are sequences of characters.  In a term "." is what
\* the regular expression engine reads it as: any one character.
MaxTextLen == 4
Alphabet == {"c", "a", "r", "e", " ", "C", "é"}
AsciiLower == {"a", "b", "c", "e", "g", "h", "i", "k", "l", "m", "o", "p", "r", "s",
               "t", "v", "y"}
Car == <<"c", "a", "r">>
Care == <<"c", "a", "r", "e">>
CarCare == Car \o <<" ">> \o Care
MyCarBroke == <<"m", "y", " ">> \o Car \o <<" ", "b", "r", "o", "k", "e">>
CarePackage ==
  <<"I", " ", "l", "o", "v", "e", " ", "t", "h", "i", "s", " ">> \o Care
    \o <<" ", "p", "a", "c", "k", "a", "g", "e">>
Texts == SeqUpTo(Alphabet, MaxTextLen) \cup {MyCarBroke, CarePackage, CarCare}
Terms == {Car, Care, <<"c", ".", "r">>, <<"a">>, <<"r", " ", "c">>, <<"e", "c">>}

\* LOWER(...)
LowerChar(ch) == IF ch = "C" THEN "c" ELSE IF ch = "I" THEN "i" ELSE ch
Lower(text) == [i \in 1..Len(text) |-> LowerChar(text[i])]

\* One character of the term, as it stands in the pattern, against one of the text.
AtomMatches(a, ch) == a = "." \/ a = ch
\* "[^a-z]"
Boundary(ch) == ch \notin AsciiLower
\* review_text ~ ('(^|[^a-z])' || term || '([^a-z]|$)')
RegexMatch(term, text) ==
  \E i \in 1..Len(text) :
    /\ i + Len(term) - 1 <= Len(text)
    /\ i = 1 \/ Boundary(text[i - 1])
    /\ \A k \in 1..Len(term) : AtomMatches(term[k], text[i + k - 1])
    /\ i + Len(term) > Len(text) \/ Boundary(text[i + Len(term)])

MatchInit ==
  /\ MainInit
  /\ \E term \in Terms, text \in Texts :
       calc = [op |-> "match", term |-> term, text |-> text, hit |-> "none"]

\* The WHERE clause of topic_matches for one search term and one review text.
TopicMatch ==
  /\ calc.op = "match"
  /\ calc.hit = "none"
  /\ calc' = [calc EXCEPT !.hit = IF RegexMatch(calc.term, Lower(calc.text))
                                    THEN "yes" ELSE "no"]
  /\ UNCHANGED mainVars

MatchNext == TopicMatch
SpecMatch == MatchInit /\ [][MatchNext]_vars

\* The topics table: MaxTopics topics, topic k with the search terms TopicTerms(k).
MaxTopics == 16
MaxThemeReviews == 3
TopicTerms(k) ==
  IF k % 3 = 0 THEN {Car} ELSE IF k % 3 = 1 THEN {Car, Care} ELSE {Care}
Topics == 1..MaxTopics

\* The week's reviews of the brand: [rating, text, text_en], text and text_en nullable.
ThemeReview ==
  [rating : {1, 3, 5}, text : {Null, Val(Car), Val(Care), Val(CarCare)},
   text_en : {Null, Val(Car)}]

\* "rating >= 4", "rating = 3", "rating <= 2" of the three review_texts
InBucket(bucket, rating) ==
  CASE bucket = "positive" -> rating >= 4
    [] bucket = "neutral" -> rating = 3
    [] OTHER -> rating <= 2

\* review_texts: the ids of the bucket's reviews with text IS NOT NULL
ReviewTexts(reviews, bucket) ==
  {i \in DOMAIN reviews : InBucket(bucket, reviews[i].rating) /\ reviews[i].text # Null}
\* LOWER(COALESCE(text_en, text))
WorkingText(r) == Lower(IF r.text_en # Null THEN r.text_en[1] ELSE r.text[1])

\* COUNT(DISTINCT r.id) over topics x review_texts x unnest(search_terms) WHERE match
MentionCountRaw(reviews, bucket, k) ==
  Cardinality({p \in ReviewTexts(reviews, bucket) \X TopicTerms(k) :
                 RegexMatch(p[2], WorkingText(reviews[p[1]]))})
MentionCount(reviews, bucket, k) ==
  Cardinality({i \in ReviewTexts(reviews, bucket) :
                 \E term \in TopicTerms(k) : RegexMatch(term, WorkingText(reviews[i]))})

\* ORDER BY mention_count DESC: rows of equal count come in an order the query
\* does not fix; tie says which of two such orders the database takes.
Before(cnt, tie, a, b) ==
  \/ cnt[a] > cnt[b]
  \/ cnt[a] = cnt[b] /\ (IF tie = "asc" THEN a < b ELSE a > b)
Ordered(cnt, tie, S) ==
  [i \in 1..Cardinality(S) |->
     CHOOSE a \in S : Cardinality({b \in S : Before(cnt, tie, b, a)}) = i - 1]

Take(seq, n) == SubSeq(seq, 1, IF Len(seq) < n THEN Len(seq) ELSE n)

\* One of the three theme queries (WHERE mention_count > 0 ORDER BY mention_count
\* DESC LIMIT 15) and the formatting of its rows, cut to [:10].
\* (cnt holds the mention_count of every topic, computed once per query)
FormatThemes(cnt, tie) ==
  LET rows == Take(Ordered(cnt, tie, {k \in Topics : cnt[k] > 0}), 15)
  IN Take([i \in 1..Len(rows) |-> [topic |-> rows[i], count |-> cnt[rows[i]]]], 10)
BucketThemes(reviews, bucket, tie) ==
  CHOOSE themes \in {FormatThemes(cnt, tie) :
                       cnt \in {[k \in Topics |-> MentionCount(reviews, bucket, k)]}} : TRUE

\* extract_themes_from_reviews
ExtractThemesFromReviews(reviews, tie) ==
  IF \A b \in {"positive", "neutral", "negative"} : ReviewTexts(reviews, b) = {}
    THEN [positive |-> <<>>, neutral |-> <<>>, negative |-> <<>>]
    ELSE [positive |-> BucketThemes(reviews, "positive", tie),
          neutral |-> BucketThemes(reviews, "neutral", tie),
          negative |-> BucketThemes(reviews, "negative", tie)]

ThemesInit ==
  /\ MainInit
  /\ \E reviews \in SeqUpTo(ThemeReview, MaxThemeReviews) :
       calc = [op |-> "themes", reviews |-> reviews, state |-> "asked",
               themes |-> [positive |-> <<>>, neutral |-> <<>>, negative |-> <<>>]]

ExtractThemes(tie) ==
  /\ calc.op = "themes"
  /\ calc.state = "asked"
  /\ calc' = [calc EXCEPT !.state = "computed",
                          !.themes = ExtractThemesFromReviews(calc.reviews, tie)]
  /\ UNCHANGED mainVars

ThemesNext == \E tie \in {"asc", "desc"} : ExtractThemes(tie)
SpecThemes == ThemesInit /\ [][ThemesNext]_vars

\* ------------------------------------------------------------- properties
StoredIds(rows) == {r.review_id : r \in rows}
BufferIds == {batch_buffer[i].id : i \in 1..Len(batch_buffer)}
BufferHasBadRecord == \E i \in 1..Len(batch_buffer) : batch_buffer[i].body # "ok"

\* C1: storage never holds two reviews with the same (brand, external id),
\* whatever syncs ran before and however they ended.
Uniqueness ==
  \A r1, r2 \in db.reviews :
    (r1.company = r2.company /\ r1.review_id = r2.review_id) => r1 = r2

\* C1 witness: a sync returned that had appended the same external id to the
\* buffer twice, and that id is stored.
UniquenessWitness ==
  /\ result = "returned"
  /\ buffered >= 2
  /\ Cardinality(fetchedIds) = 1
  /\ fetchedIds \subseteq StoredIds(db.reviews)

\* C2: a sync that returns has every record it fetched durably stored, stored rows
\* are never removed or changed afterwards, and a sync that fetches only records
\* whose ids were stored when it started leaves the rows of the table (membership
\* and field values) exactly as they were.  So a re-run over the pages of a
\* completed run adds nothing.
RerunAddsNothing ==
  /\ [](result = "returned" => fetchedIds \subseteq StoredIds(db.reviews))
  /\ [][db.reviews \subseteq db.reviews']_vars
  /\ []((result = "returned" /\ fetchedIds \subseteq StoredIds(startRows))
          => VisibleRows(db) = startRows)

\* C2 witness: a sync of a brand returned after fetching records that were all
\* stored under that brand before it began.
RerunWitness ==
  /\ result = "returned"
  /\ fetchedIds # {}
  /\ \A id \in fetchedIds : \E r \in startRows : r.review_id = id /\ r.company = Company

\* C3: no record inserted by a flush that failed part-way is ever committed.
FlushAllOrNothing == \A r \in db.reviews : ~r.failed

\* C4: in incremental mode no page is requested once the two most recent pages
\* both contributed zero new records; the loop has ended at the second of them.
EarlyStopHolds ==
  /\ (pc = "fetch" /\ use_date_filter /\ Len(news) >= 2)
       => ~(news[Len(news) - 1] = 0 /\ news[Len(news)] = 0)
  /\ stop = "early" => (pc \notin {"fetch", "commit"} /\ Len(io) = page)

\* C4 witness: pages 3 and 4 contributed nothing after page 2 had, and the sync
\* stopped at page 4 without a request for page 5.
EarlyStopWitness ==
  /\ stop = "early"
  /\ page = 4
  /\ news[2] > 0 /\ news[3] = 0 /\ news[4] = 0
  /\ io[Len(io)] = <<"get", 4>>

\* C5: in a multi-brand run the brands are processed once each in list order,
\* whatever raised on the way, and the run ends only after the last brand.
BrandIsolation ==
  driver \in MultiBrand =>
    /\ Len(done) <= Len(Brands)
    /\ \A i \in 1..Len(done) : done[i][1] = Brands[i]
    /\ pc # "idle" => bi = Len(done) + 1
    /\ pc = "idle" => Len(done) = Len(Brands)

\* C5 witness: a pipeline run has ended in which the first brand raised and the
\* second brand was processed to its end.
BrandIsolationWitness ==
  /\ pc = "idle"
  /\ driver = "pipeline"
  /\ Len(done) = 2
  /\ done[1][2] = "error"
  /\ done[2][2] = "ok"

\* C6 as stated: after an error fetching or parsing a page, scrape_and_save
\* returns instead of raising.
FetchErrorNeverRaises == stop = "error" => result # "raised"

\* C6 amended: after an error fetching or parsing page k no further page is
\* requested, the call returns pages 1..k-1, and when it returns every novel
\* record buffered from those pages is durably stored; it raises only when the
\* final flush of that buffer fails.
FetchErrorPartial ==
  stop = "error" =>
    /\ pc \notin {"fetch", "commit"}
    /\ Len(io) = page /\ io[Len(io)] = <<"get", page>>
    /\ all_reviews = [i \in 1..(page - 1) |-> i]
    /\ result = "returned" => (BufferIds \cup fetchedIds) \subseteq StoredIds(db.reviews)
    /\ result = "raised" => BufferHasBadRecord

\* C6 witness: page k >= 2 failed to load with records buffered, and the call
\* returned.
FetchErrorWitness ==
  /\ stop = "error"
  /\ result = "returned"
  /\ page >= 2
  /\ batch_buffer # <<>>

\* C7: when scrape_and_save returns, every record that was appended to the buffer
\* has gone through a successful flush, whatever ended the loop; when it raises
\* with records in the buffer, it is the flush of that buffer that failed.
FinalFlushAlways ==
  /\ result = "returned" =>
       (total_inserted = buffered /\ BufferIds \subseteq StoredIds(db.reviews))
  /\ (result = "raised" /\ batch_buffer # <<>>) => (BufferHasBadRecord \/ QueryRaises(db))

\* C7 witness: an early stop left a buffer smaller than batch_size, and the call
\* returned.
FinalFlushWitness ==
  /\ result = "returned"
  /\ stop = "early"
  /\ batch_buffer # <<>>
  /\ Len(batch_buffer) < batch_size

DelayBetweenFetches ==
  \A i \in 1..(Len(io) - 1) : ~(io[i][1] = "get" /\ io[i + 1][1] = "get")

\* C10: no commit carries review inserts of two flushes or of two brands.
OneFlushPerCommit == ~db.mixed

\* C11: in a pipeline run, every generate_weekly_report call the report stage
\* makes runs its aggregation queries on the run's connection, and the stage
\* opens no connection of its own.
OneConnection ==
  (driver = "pipeline" /\ rep.gen # "none") => (rep.on = "run" /\ rep.opened = 0)

\* C12: within one sync the requests are for pages 1, 2, 3, ... in this order, none
\* skipped and none repeated, and when page n+1 is about to be requested the
\* records of pages 1..n have all been checked and buffered.
PagesInOrder ==
  /\ \A i \in 1..Len(io) : io[i] = <<"get", i>>
  /\ pc = "fetch" => (Len(io) = page - 1 /\ Len(news) = page - 1
                        /\ all_reviews = [i \in 1..(page - 1) |-> i])
  /\ pc = "commit" => (Len(io) = page /\ Len(news) = page)

\* C12 witness: pages 1, 2 and 3 were requested and processed in turn, with
\* records buffered on the way, and page 4 is about to be requested.
PagesInOrderWitness ==
  /\ pc = "fetch"
  /\ page = 4
  /\ io = <<(<<"get", 1>>), (<<"get", 2>>), (<<"get", 3>>)>>
  /\ buffered >= 2

\* C20: a report stage that ends with an exception has counted every week of its
\* list as uploaded, skipped or failed: no week is left unprocessed.
WeekIsolation ==
  (pc = "raised" /\ rep.stage = "weeks") =>
    rep.uploaded + rep.skipped + rep.failed = rep.weeks

\* ISO 8601 facts the week claims are measured against: a year has 53 weeks when
\* its 1 January is a Thursday, or a Wednesday in a leap year; week 1 of the next
\* year follows the last week of a year.
IsLeap(y) == (y % 4 = 0 /\ y % 100 # 0) \/ y % 400 = 0
IsoWeeksInYear(y) ==
  LET jan1 == (DaysBeforeYear(y) + 1) % 7    \* 1 = Monday ... 4 = Thursday, 0 = Sunday
  IN IF jan1 = 4 \/ (IsLeap(y) /\ jan1 = 3) THEN 53 ELSE 52
IsoTokens ==
  {tok \in [year : (FirstYear - 1)..(LastYear + 1), week : 1..53] :
     tok.week <= IsoWeeksInYear(tok.year)}
IsoNext(tok) ==
  IF tok.week < IsoWeeksInYear(tok.year)
    THEN [year |-> tok.year, week |-> tok.week + 1]
    ELSE [year |-> tok.year + 1, week |-> 1]
IsoPrev(tok) ==
  IF tok.week > 1
    THEN [year |-> tok.year, week |-> tok.week - 1]
    ELSE [year |-> tok.year - 1, week |-> IsoWeeksInYear(tok.year - 1)]
Holds(tok, t) == InWindow(t, WeekStart(tok.year, tok.week), WeekEnd(tok.year, tok.week))

\* C14: for every ISO-week token the computed week_start is a Monday at 00:00 and
\* the week counts exactly the reviews dated in [week_start, week_start + 7 days):
\* a review at week_start is counted, one a second earlier is counted by the
\* previous week (and by the previous-week window of this report), one at
\* week_end by the next week, and every review date lies in the window of exactly
\* one ISO week.
WeekBoundaries ==
  (calc.op = "week" /\ calc.state = "computed"
     /\ [year |-> calc.year, week |-> calc.week] \in IsoTokens) =>
    LET tok == [year |-> calc.year, week |-> calc.week]
        t == calc.review_date
    IN /\ calc.week_start_day % 7 = 1
       /\ calc.week_start = Instant(calc.week_start_day, 0)
       /\ calc.week_end = calc.week_start + 7 * 86400
       /\ calc.this = 1 <=> (calc.week_start <= t /\ t < calc.week_end)
       /\ calc.off = 0 => calc.this = 1
       /\ calc.off = -1 => (calc.this = 0 /\ calc.prev = 1 /\ Holds(IsoPrev(tok), t))
       /\ calc.off = 7 * 86400 => (calc.this = 0 /\ Holds(IsoNext(tok), t))
       /\ Cardinality({k \in IsoTokens : Holds(k, t)}) = 1

\* C14 witness: the report of 2026-W04 was computed over a review dated one second
\* before its Monday 2026-01-19 00:00, which it leaves to the previous week.
WeekBoundariesWitness ==
  /\ calc.op = "week" /\ calc.state = "computed"
  /\ calc.year = 2026 /\ calc.week = 4
  /\ calc.week_start_day = DaysBeforeYear(2026) + 19
  /\ calc.off = -1
  /\ calc.this = 0 /\ calc.prev = 1

\* What the table of a statistics call holds, counted from how it was built.
StoredInWeek(tok) ==
  IF calc.company_name # Brands[1] THEN 0
  ELSE IF tok = ReviewWeek
    THEN calc.hist[1] + calc.hist[2] + calc.hist[3] + calc.hist[4] + calc.hist[5]
           + calc.nullRated
  ELSE IF tok = IsoNext(ReviewWeek) THEN calc.nnext
  ELSE IF tok = IsoPrev(ReviewWeek) THEN calc.nprev
  ELSE 0
Answered == calc.op = "stats" /\ calc.caller # "none"

\* C13: in every report the positive, neutral and negative counts add up to the
\* week's total_reviews.
BucketCompleteness ==
  (Answered /\ calc.out.outcome = "report") =>
    calc.out.positive + calc.out.neutral + calc.out.negative = calc.out.total_this_week

\* C15: in every report wow_change is this week's total minus the total of the
\* seven days before; wow_change_pct is null when that total is 0 and otherwise
\* the hundredth nearest to wow_change / previous total * 100 (10 after 6 gives +4
\* and +66.67); a call that fits the signature ends with a report or a null
\* report, never with an exception.
WowChange ==
  /\ (Answered /\ calc.out.outcome = "report") =>
       LET this == calc.out.total_this_week
           last == calc.out.total_last_week
           pct == calc.out.wow_change_pct
       IN /\ this = StoredInWeek(calc.iso_week)
          /\ last = StoredInWeek(IsoPrev(calc.iso_week))
          /\ calc.out.wow_change = this - last
          /\ last = 0 => pct = Null
          /\ last > 0 =>
               /\ pct # Null
               /\ LET err == pct[1] * last - (this - last) * 10000
                  IN 2 * err <= last /\ -2 * err <= last
          /\ (this = 10 /\ last = 6) => (calc.out.wow_change = 4 /\ pct = Val(6667))
  /\ (Answered /\ calc.caller = "direct") => calc.out.outcome \in {"null", "report"}

\* C15 witness: a report over 10 reviews in the week and 6 in the week before,
\* with wow_change +4 and wow_change_pct +66.67.
WowChangeWitness ==
  /\ Answered
  /\ calc.out.outcome = "report"
  /\ calc.out.total_this_week = 10
  /\ calc.out.total_last_week = 6
  /\ calc.out.wow_change_pct = Val(6667)

\* C16: a report asked for a brand that is not stored, or for a week in which the
\* brand has no review, is a null report, whoever calls generate_weekly_report.
NullReport ==
  (Answered /\ (calc.company_name # Brands[1] \/ StoredInWeek(calc.iso_week) = 0)) =>
    calc.out.outcome = "null"

\* What the matching claims are measured against: letters, and the places where
\* the term's own characters stand in a text.
Letters == AsciiLower \cup {"é"}
OccursAt(term, text, i) ==
  /\ i + Len(term) - 1 <= Len(text)
  /\ \A k \in 1..Len(term) : text[i + k - 1] = term[k]
WholeWordAt(term, text, i) ==
  /\ OccursAt(term, text, i)
  /\ i = 1 \/ text[i - 1] \notin Letters
  /\ i + Len(term) > Len(text) \/ text[i + Len(term)] \notin Letters
IsLiteral(term) == \A k \in 1..Len(term) : term[k] # "."
Matched == calc.op = "match" /\ calc.hit # "none"

\* C17: a search term of plain characters matches a review text exactly when it
\* occurs in the lower-cased text with a non-letter or the end of the text on
\* both sides.
WordBoundaryMatch ==
  (Matched /\ IsLiteral(calc.term)) =>
    (calc.hit = "yes" <=>
       \E i \in 1..Len(calc.text) : WholeWordAt(calc.term, Lower(calc.text), i))

\* C18: a search term matches a review only where exactly the term's characters
\* occur in the text, also when the term holds a character that is special in a
\* regular expression.
LiteralTermMatch ==
  (Matched /\ calc.hit = "yes") =>
    \E i \in 1..Len(calc.text) : OccursAt(calc.term, Lower(calc.text), i)

\* The reviews of a bucket that a topic matches, recounted one by one.
Mentioning(bucket, k) ==
  {i \in DOMAIN calc.reviews :
     /\ InBucket(bucket, calc.reviews[i].rating)
     /\ calc.reviews[i].text # Null
     /\ \E term \in TopicTerms(k) : RegexMatch(term, WorkingText(calc.reviews[i]))}
Ranked(bucket, list) ==
  /\ Len(list) <= 10
  /\ \A i \in 1..Len(list) : list[i].count = Cardinality(Mentioning(bucket, list[i].topic))
  /\ \A i, j \in 1..Len(list) : i < j =>
       (list[i].count >= list[j].count /\ list[i].topic # list[j].topic)
  /\ \A k \in Topics :
       (Mentioning(bucket, k) # {} /\ \A i \in 1..Len(list) : list[i].topic # k) =>
         (Len(list) = 10 /\ \A i \in 1..Len(list) :
                              list[i].count >= Cardinality(Mentioning(bucket, k)))

\* C19: for each sentiment bucket every returned theme carries the number of
\* distinct reviews of the bucket that its topic matches, the themes come in
\* descending order of that count, at most 10 are returned, and a topic that
\* matches is left out only when 10 themes with counts at least as high are in.
ThemeRanking ==
  (calc.op = "themes" /\ calc.state = "computed") =>
    /\ Ranked("positive", calc.themes.positive)
    /\ Ranked("neutral", calc.themes.neutral)
    /\ Ranked("negative", calc.themes.negative)

\* C19 witness: three positive reviews, one of them matched by both terms of a
\* topic, gave 10 themes led by a topic counted 3 and ending below it.
ThemeRankingWitness ==
  /\ calc.op = "themes" /\ calc.state = "computed"
  /\ \E i \in DOMAIN calc.reviews :
       calc.reviews[i].rating = 5 /\ calc.reviews[i].text = Val(CarCare)
         /\ calc.reviews[i].text_en = Null
  /\ Len(calc.themes.positive) = 10
  /\ calc.themes.positive[1].count = 3
  /\ calc.themes.positive[10].count < 3

\* C21: at every point of a sync the buffer holds at most batch_size records.
BufferBounded == Len(batch_buffer) <= batch_size

\* C22: a sync that ended by end-of-pages or early stop and returned has updated
\* the brand's last-synced timestamp, and the timestamp is not updated before the
\* final flush: while the call is still fetching or flushing, and when its final
\* flush has failed, the timestamp is the one from before the call.
TimestampAfterFlush ==
  /\ (result = "returned" /\ stop \in {"notfound", "nodata", "empty", "early"})
       => Company \in db.updated_at
  /\ pc \in {"fetch", "commit", "final", "stamp"} => Company \notin db.updated_at
  /\ (pc = "raised" /\ result = "raised") => Company \notin db.updated_at

\* C23: in a multi-brand run, whenever the driver turns to a brand the shared
\* connection takes statements: no earlier failure has left it in a state in
\* which the brand's first query raises.
ConnectionUsable ==
  (driver \in MultiBrand /\ pc = "brand" /\ bi <= Len(Brands)) => ~QueryRaises(db)

\* How many of the most recently processed pages in a row contributed nothing new.
TrailingZeros(sq) ==
  CHOOSE k \in 0..Len(sq) :
    /\ \A i \in (Len(sq) - k + 1)..Len(sq) : sq[i] = 0
    /\ k = Len(sq) \/ sq[Len(sq) - k] # 0

\* C24: a sync stops early only in incremental mode and only when the two most
\* recently fetched pages both contributed no novel record; the count of empty
\* pages is the number of such pages in a row, so a page with a novel record
\* resets it; in full mode the page loop ends only by end-of-pages or an error.
EarlyStopOnlyConsecutive ==
  /\ stop = "early" =>
       /\ use_date_filter
       /\ Len(news) >= 2
       /\ news[Len(news)] = 0 /\ news[Len(news) - 1] = 0
  /\ (use_date_filter /\ pc = "fetch") => consecutive_empty_pages = TrailingZeros(news)
  /\ (~use_date_filter /\ pc \in {"final", "stamp"}) =>
       stop \in {"notfound", "nodata", "empty", "error", "dberror"}
  /\ ~use_date_filter => consecutive_empty_pages = 0

\* C24 witness: an incremental sync whose pages 1 and 3 contributed nothing and
\* whose page 2 contributed a novel record goes on to request page 4.
EarlyStopOnlyWitness ==
  /\ use_date_filter
  /\ pc = "fetch"
  /\ page = 4
  /\ news = <<0, 1, 0>>

\* C25: novelty is decided per brand: when a sync returns, every record it fetched
\* is stored under the brand of the sync, also a record whose external id was
\* stored under another brand before; and a record is skipped only when the
\* brand itself already had it.
NoveltyPerBrand ==
  result = "returned" =>
    /\ \A id \in fetchedIds :
         \E r \in db.reviews : r.company = Company /\ r.review_id = id
    /\ buffered = 0 =>
         \A id \in fetchedIds :
           \E r \in startRows : r.company = Company /\ r.review_id = id

\* C26: the buffer never holds two records with the same external id, and when a
\* sync returns, the number of saved reviews it reports is the number of rows it
\* added to storage.
BufferedOnce ==
  /\ \A i, j \in 1..Len(batch_buffer) :
       i # j => batch_buffer[i].id # batch_buffer[j].id
  /\ result = "returned" => total_inserted = Cardinality(db.reviews \ startRows)

\* C27: once the source has answered page P with not-found, no data or an empty
\* review list, the sync requests no further page (P requests were made, the last
\* for page P) and is over after the final flush and the timestamp update, each
\* of which returns or raises; in incremental mode no more than two pages are
\* requested after the last page that contributed a novel record.
EndOfPagesTerminates ==
  /\ [](stop \in {"notfound", "nodata", "empty"} =>
          /\ pc \notin {"fetch", "commit"}
          /\ Len(io) = page
          /\ io[Len(io)] = <<"get", page>>)
  /\ [](use_date_filter =>
          /\ TrailingZeros(news) <= 2
          /\ Len(io) <= Len(news) - TrailingZeros(news) + 2
          /\ pc = "fetch" => TrailingZeros(news) < 2)
  /\ [][/\ pc = "final" => pc' \in {"stamp", "raised"}
        /\ pc = "stamp" => pc' \in {"report", "raised"}]_vars

\* C27 witness: a full sync whose pages 1 and 2 held reviews got a not-found
\* answer for page 3 and returned after three requests.
EndOfPagesWitness ==
  /\ stop = "notfound"
  /\ ~use_date_filter
  /\ page = 3
  /\ Len(io) = 3
  /\ Len(news) = 2
  /\ result = "returned"

\* The ISO week a calendar day lies in, found among all valid week tokens.
IsoWeekOfDay(day) ==
  CHOOSE tok \in IsoTokens :
    WeekStartDay(tok.year, tok.week) <= day /\ day < WeekStartDay(tok.year, tok.week) + 7

\* C28: for a latest review date and weeks_back >= 1, calculate_weeks_from_latest
\* returns weeks_back tokens: the first is the ISO week of the latest date, each
\* next one is the ISO week before the previous one, every week number lies
\* between 1 and the number of ISO weeks of its year, and no token comes twice.
WeeksBackValid ==
  (calc.op = "weeks" /\ calc.state = "computed" /\ calc.latest_date # Null) =>
    LET weeks == calc.weeks
    IN /\ Len(weeks) = calc.weeks_back
       /\ weeks[1] = IsoWeekOfDay(calc.latest_date[1].day)
       /\ \A n \in 2..Len(weeks) : weeks[n] = IsoPrev(weeks[n - 1])
       /\ \A n \in 1..Len(weeks) :
            weeks[n].week >= 1 /\ weeks[n].week <= IsoWeeksInYear(weeks[n].year)
       /\ \A n, m \in 1..Len(weeks) : n # m => weeks[n] # weeks[m]

\* The reviews of the week that carry both timestamps, and their latencies.
Replied ==
  {i \in DOMAIN calc.tbl : calc.tbl[i].review_date # Null /\ calc.tbl[i].reply_date # Null}
LatencySeconds == [i \in Replied |-> calc.tbl[i].reply_date[1] - calc.tbl[i].review_date[1]]

\* C29: in every report the average response latency is null exactly when the
\* week has no review with both a reply and a review timestamp, and otherwise it
\* is the hundredth of an hour nearest to the average latency of exactly those
\* reviews; an average of 0 hours is reported as 0.
ResponseLatency ==
  (calc.op = "latency" /\ calc.state = "computed" /\ calc.outcome = "report") =>
    LET got == calc.avg_response_time_hours
        n == Cardinality(Replied)
    IN /\ got = Null <=> Replied = {}
       /\ Replied # {} =>
            LET err == got[1] * n * 3600 - SumOver(LatencySeconds, Replied) * 100
            IN 2 * err <= n * 3600 /\ -2 * err <= n * 3600

\* C30: a sync whose pagination was aborted by a fetch or parse error and whose
\* final flush succeeded returns with the brand's timestamp updated: after such
\* an error the timestamp UPDATE cannot fail, and the call raises only when the
\* final flush does.  Whatever ended the pagination, a call that returns has
\* updated the timestamp, so the timestamp is left unchanged only by a call that
\* raises.
PartialSuccessStamps ==
  /\ (stop = "error" /\ pc = "stamp") => ~QueryRaises(db)
  /\ (stop = "error" /\ result = "raised") =>
       (batch_buffer # <<>> /\ BufferHasBadRecord /\ total_inserted < buffered)
  /\ result = "returned" =>
       (Company \in db.updated_at /\ Company \in db.companies /\ db.pendingCo = {})

\* C30 witness: the request for page 2 or later failed with records in the
\* buffer, the final flush stored them, and the call returned with the timestamp
\* updated.
PartialSuccessWitness ==
  /\ stop = "error"
  /\ result = "returned"
  /\ page >= 2
  /\ batch_buffer # <<>>
  /\ BufferIds \subseteq StoredIds(db.reviews)
  /\ Company \in db.updated_at

====
